---- MODULE Spec2Model ----
(***************************************************************************)
(* Model of src/vector/layer.rs: Layer, FeatureIterator and FieldDefn, the *)
(* safe wrappers over the native OGR layer API.  The native library is     *)
(* modelled by the operators named after its C entry points (OGR_...);     *)
(* the wrappers are modelled by the operators and actions named after the  *)
(* Rust methods.                                                           *)
(***************************************************************************)
EXTENDS Integers, Sequences, FiniteSets, TLC

(* ------------------------------ bounds -------------------------------- *)

\* features the layer may hold
MaxFeatures == 2
\* native feature objects OGR_F_Create may allocate (create_* calls made)
MaxCalls == 3
\* FeatureIterator values alive at once
MaxIters == 1
\* create_feature_fields is called while fewer native features than this
\* have been allocated
MaxFieldCalls == 1
\* length of the field_names and values slices passed in
MaxArgs == 1
\* length of the fields_def slice passed in
MaxSpecs == 3
\* native field-definition objects OGR_Fld_Create may allocate
MaxFld == 3
\* fields the layer definition may hold
MaxSchema == 3

(* ------------------------------ domains ------------------------------- *)

\* A geometry is the set of cells it covers; two geometries intersect when
\* they share a cell.  NULL is the null geometry pointer.
NULL == {}
FeatureGeoms == {{1}, {2}}
FilterGeoms == {{1}, {1, 2}}

\* ogr_enums::OGRErr
OGRERR_NONE == "OGRERR_NONE"
OGRErr == {"OGRERR_NONE", "OGRERR_UNSUPPORTED_OPERATION", "OGRERR_FAILURE"}

\* ogr_enums::OGRFieldType
OGRFieldType == {"OFTString", "OFTInteger", "OFTReal"}

\* vector::FieldValue, the payload written as its text
StringValue(v) == [tag |-> "StringValue", v |-> v]
IntegerValue(v) == [tag |-> "IntegerValue", v |-> v]
RealValue(v) == [tag |-> "RealValue", v |-> v]
FieldValues == {StringValue("A"), IntegerValue("5"), RealValue("2.5")}
FieldNames == {"name", "pop"}

\* Result<()>: Ok(()), Err(ErrorKind::OgrError(code, op)), or a panic that
\* unwinds out of the call
Ok == [kind |-> "Ok", code |-> OGRERR_NONE, op |-> ""]
Err(code, op) == [kind |-> "Err", code |-> code, op |-> op]
Panic(what) == [kind |-> "Panic", code |-> OGRERR_NONE, op |-> what]

VARIABLES
    features,   \* native layer: the persisted features, in storage order
    cursor,     \* native layer: read cursor (features already passed over)
    filter,     \* native layer: installed spatial filter, NULL when none
    schema,     \* native layer definition: sequence of [name, type]
    featHeap,   \* native feature objects allocated by OGR_F_Create
    fldHeap,    \* native field-definition objects allocated by OGR_Fld_Create
    fldOwner,   \* handles owned by a live FieldDefn wrapper
    cdf,        \* create_defn_fields / add_to_layer call in progress
    iters,      \* live FeatureIterator values (with what each has yielded)
    last,       \* the most recent create_* call and its outcome, while the
                \* layer is as that call left it
    created,    \* geometries of the successful create_feature calls, in order
    hist,       \* "creates": only create_feature so far; "pass": then one
                \* features() pass; "other": anything else happened
    lastPass,   \* what the most recently exhausted pass yielded
    filterCall  \* the most recent set_/clear_spatial_filter call, if any,
                \* and whether set_spatial_filter was ever called

vars == <<features, cursor, filter, schema, featHeap, fldHeap, fldOwner, cdf,
          iters, last, created, hist, lastPass, filterCall>>

(* --------------------------- native library --------------------------- *)

Min(S) == CHOOSE x \in S : \A y \in S : x <= y

\* Spatial filter test of the native layer: no filter admits everything.
Admits(flt, geom) == flt = NULL \/ (flt \cap geom) # {}

\* The features a full read from the start returns under filter flt.
Admitted(feats, flt) == SelectSeq(feats, LAMBDA f : Admits(flt, f.geom))

\* OGR_L_GetNextFeature: the next feature after the layer's cursor that the
\* filter admits (a one-element sequence), or null (the empty sequence) at
\* the end.  The cursor belongs to the layer and only moves forward.
OGR_L_GetNextFeature(feats, cur, flt) ==
    LET idx == {i \in (cur + 1)..Len(feats) : Admits(flt, feats[i].geom)}
    IN IF idx = {}
       THEN [feature |-> <<>>, cursor |-> Len(feats)]
       ELSE [feature |-> <<feats[Min(idx)]>>, cursor |-> Min(idx)]

\* OGR_L_SetSpatialFilter: OGRLayer::SetSpatialFilter installs the filter
\* and resets reading when InstallFilter reports a change (it reports none
\* only when the old and the new filter are both null).
OGR_L_SetSpatialFilter(flt, cur, geom) ==
    IF flt = NULL /\ geom = NULL
    THEN [filter |-> flt, cursor |-> cur]
    ELSE [filter |-> geom, cursor |-> 0]

\* OGR_F_Create: a feature of the layer definition, no geometry, no field set.
OGR_F_Create(defn) == [geom |-> NULL, fields |-> [i \in 1..Len(defn) |-> ""]]

\* OGR_F_SetGeometryDirectly: consumes the geometry; attaches it on success.
OGR_F_SetGeometryDirectly(feat, geom, rv) ==
    IF rv = OGRERR_NONE THEN [feat EXCEPT !.geom = geom] ELSE feat

\* OGR_L_CreateFeature: on success the layer stores a copy of the feature as
\* a new last feature; the passed feature object stays the caller's.
OGR_L_CreateFeature(feats, feat, rv) ==
    IF rv = OGRERR_NONE THEN Append(feats, feat) ELSE feats

\* OGR_F_GetFieldIndex: position of the first field of that name in the
\* feature's definition; 0 stands for the C API's -1 (no such field).
OGR_F_GetFieldIndex(defn, name) ==
    LET idx == {i \in 1..Len(defn) : defn[i].name = name}
    IN IF idx = {} THEN 0 ELSE Min(idx)

\* C atoi / atof and the (int) cast on the payload texts of FieldValues.
Atoi(v) == IF v = "A" THEN "0" ELSE v
Trunc(v) == IF v = "2.5" THEN "2" ELSE v

\* OGRFeature::SetField writes nothing for an index outside the definition.
SetRaw(feat, idx, v) ==
    IF idx \in 1..Len(feat.fields) THEN [feat EXCEPT !.fields[idx] = v] ELSE feat

\* OGR_F_SetFieldString: stored as text in a string field, parsed as a
\* number in a numeric one.
OGR_F_SetFieldString(feat, defn, idx, v) ==
    IF idx \in 1..Len(defn) /\ defn[idx].type # "OFTString"
    THEN SetRaw(feat, idx, Atoi(v)) ELSE SetRaw(feat, idx, v)

\* OGR_F_SetFieldInteger: the number, or its decimal text in a string field.
OGR_F_SetFieldInteger(feat, defn, idx, v) == SetRaw(feat, idx, v)

\* OGR_F_SetFieldDouble: truncated towards zero in an integer field.
OGR_F_SetFieldDouble(feat, defn, idx, v) ==
    IF idx \in 1..Len(defn) /\ defn[idx].type = "OFTInteger"
    THEN SetRaw(feat, idx, Trunc(v)) ELSE SetRaw(feat, idx, v)

\* Reading a field back through the feature accessor: the variant follows
\* the field's declared type; an unset field reads as the empty sequence.
TagOf(type) ==
    CASE type = "OFTString" -> "StringValue"
      [] type = "OFTInteger" -> "IntegerValue"
      [] OTHER -> "RealValue"
GetField(feat, defn, name) ==
    LET idx == OGR_F_GetFieldIndex(defn, name)
    IN IF idx = 0 \/ idx > Len(feat.fields) \/ feat.fields[idx] = ""
       THEN <<>>
       ELSE <<[tag |-> TagOf(defn[idx].type), v |-> feat.fields[idx]]>>

\* OGR_L_CreateField: on success the definition gains the field as its last
\* one and every stored feature gains an unset field.
OGR_L_CreateField(defn, fld, rv) ==
    IF rv = OGRERR_NONE
    THEN Append(defn, [name |-> fld.name, type |-> fld.type])
    ELSE defn
WidenFeatures(feats, rv) ==
    IF rv = OGRERR_NONE
    THEN [i \in 1..Len(feats) |->
             [feats[i] EXCEPT !.fields = Append(feats[i].fields, "")]]
    ELSE feats

(* ------------------------------- Layer -------------------------------- *)

\* Mutant of create_feature: the return value of OGR_L_CreateFeature is not
\* looked at.
create_feature_unchecked(geometry, rvGeom, rvSubmit) ==
    LET c_feature == OGR_F_Create(schema)
        heap == Append(featHeap, [state |-> "allocated", owned |-> FALSE])
        withGeom == OGR_F_SetGeometryDirectly(c_feature, geometry, rvGeom)
    IN IF rvGeom # OGRERR_NONE
       THEN [result |-> Err(rvGeom, "OGR_F_SetGeometryDirectly"),
             features |-> features, featHeap |-> heap,
             setters |-> 0, submitted |-> FALSE]
       ELSE [result |-> Ok,
             features |-> OGR_L_CreateFeature(features, withGeom, rvSubmit),
             featHeap |-> heap, setters |-> 0, submitted |-> TRUE]

\* Layer::create_feature
create_feature(geometry, rvGeom, rvSubmit) ==
    LET c_feature == OGR_F_Create(schema)
        heap == Append(featHeap, [state |-> "allocated", owned |-> FALSE])
        withGeom == OGR_F_SetGeometryDirectly(c_feature, geometry, rvGeom)
    IN IF rvGeom # OGRERR_NONE
       THEN [result |-> Err(rvGeom, "OGR_F_SetGeometryDirectly"),
             features |-> features, featHeap |-> heap,
             setters |-> 0, submitted |-> FALSE]
       ELSE IF rvSubmit # OGRERR_NONE
       THEN [result |-> Err(rvSubmit, "OGR_L_CreateFeature"),
             features |-> OGR_L_CreateFeature(features, withGeom, rvSubmit),
             featHeap |-> heap, setters |-> 0, submitted |-> TRUE]
       ELSE [result |-> Ok,
             features |-> OGR_L_CreateFeature(features, withGeom, rvSubmit),
             featHeap |-> heap, setters |-> 0, submitted |-> TRUE]

\* The match on the value's variant inside the loop of create_feature_fields.
SetFieldValue(feat, defn, idx, val) ==
    CASE val.tag = "StringValue" -> OGR_F_SetFieldString(feat, defn, idx, val.v)
      [] val.tag = "IntegerValue" -> OGR_F_SetFieldInteger(feat, defn, idx, val.v)
      [] OTHER -> OGR_F_SetFieldDouble(feat, defn, idx, val.v)

\* The loop of create_feature_fields from position i on: values[i] is
\* indexed for every position of field_names, and indexing past the end of
\* values panics.
RECURSIVE SetFields(_, _, _, _, _)
SetFields(feat, defn, field_names, values, i) ==
    IF i > Len(field_names)
    THEN [feat |-> feat, setters |-> i - 1, panicked |-> FALSE]
    ELSE IF i > Len(values)
    THEN [feat |-> feat, setters |-> i - 1, panicked |-> TRUE]
    ELSE SetFields(SetFieldValue(feat, defn,
                                 OGR_F_GetFieldIndex(defn, field_names[i]),
                                 values[i]),
                   defn, field_names, values, i + 1)

\* Mutant of create_feature_fields: no early return when the geometry
\* could not be attached.
create_feature_fields_noret(geometry, field_names, values, rvGeom, rvSubmit) ==
    LET c_feature == OGR_F_Create(schema)
        heap == Append(featHeap, [state |-> "allocated", owned |-> FALSE])
        withGeom == OGR_F_SetGeometryDirectly(c_feature, geometry, rvGeom)
        loop == SetFields(withGeom, schema, field_names, values, 1)
    IN IF loop.panicked
       THEN [result |-> Panic("index out of bounds"),
             features |-> features, featHeap |-> heap,
             setters |-> loop.setters, submitted |-> FALSE]
       ELSE IF rvSubmit # OGRERR_NONE
       THEN [result |-> Err(rvSubmit, "OGR_L_CreateFeature"),
             features |-> OGR_L_CreateFeature(features, loop.feat, rvSubmit),
             featHeap |-> heap, setters |-> loop.setters, submitted |-> TRUE]
       ELSE [result |-> Ok,
             features |-> OGR_L_CreateFeature(features, loop.feat, rvSubmit),
             featHeap |-> heap, setters |-> loop.setters, submitted |-> TRUE]

\* Layer::create_feature_fields
create_feature_fields(geometry, field_names, values, rvGeom, rvSubmit) ==
    LET c_feature == OGR_F_Create(schema)
        heap == Append(featHeap, [state |-> "allocated", owned |-> FALSE])
        withGeom == OGR_F_SetGeometryDirectly(c_feature, geometry, rvGeom)
        loop == SetFields(withGeom, schema, field_names, values, 1)
    IN IF rvGeom # OGRERR_NONE
       THEN [result |-> Err(rvGeom, "OGR_F_SetGeometryDirectly"),
             features |-> features, featHeap |-> heap,
             setters |-> 0, submitted |-> FALSE]
       ELSE IF loop.panicked
       THEN [result |-> Panic("index out of bounds"),
             features |-> features, featHeap |-> heap,
             setters |-> loop.setters, submitted |-> FALSE]
       ELSE IF rvSubmit # OGRERR_NONE
       THEN [result |-> Err(rvSubmit, "OGR_L_CreateFeature"),
             features |-> OGR_L_CreateFeature(features, loop.feat, rvSubmit),
             featHeap |-> heap, setters |-> loop.setters, submitted |-> TRUE]
       ELSE [result |-> Ok,
             features |-> OGR_L_CreateFeature(features, loop.feat, rvSubmit),
             featHeap |-> heap, setters |-> loop.setters, submitted |-> TRUE]

\* Layer::set_spatial_filter and Layer::clear_spatial_filter (geometry NULL)
set_spatial_filter(geometry) == OGR_L_SetSpatialFilter(filter, cursor, geometry)
clear_spatial_filter == OGR_L_SetSpatialFilter(filter, cursor, NULL)

(* --------------------------- FeatureIterator -------------------------- *)

\* A FeatureIterator holds only the borrow of the layer.  The other fields
\* record its pass: what it has yielded (out), whether next() has returned
\* None (done), whether no filter call was made since features() returned
\* it (clean), whether no other iterator has called next() since then
\* (alone), the pass exhausted last before it (prev), and whether nothing
\* but create_feature calls came before it (first).
NoIter == [live |-> FALSE, out |-> <<>>, done |-> FALSE, clean |-> FALSE,
           alone |-> FALSE, prev |-> [valid |-> FALSE, out |-> <<>>],
           first |-> FALSE]
NoPass == [valid |-> FALSE, out |-> <<>>]

\* FeatureIterator::_with_layer: the native read cursor the new iterator
\* starts from.  The constructor stores the layer reference and calls
\* nothing on the native layer.
with_layer_cursor == cursor

\* FeatureIterator::next: None when the native call returns null.
next ==
    LET c_feature == OGR_L_GetNextFeature(features, cursor, filter)
    IN [item |-> c_feature.feature, cursor |-> c_feature.cursor]

(* ------------------------------ FieldDefn ----------------------------- *)

\* OGR_Fld_Create
OGR_Fld_Create(name, field_type) ==
    [name |-> name, type |-> field_type, width |-> 0, precision |-> 0,
     destroyed |-> 0]

\* OGR_Fld_Destroy on handle h
OGR_Fld_Destroy(heap, h) ==
    [heap EXCEPT ![h] = [name |-> "", type |-> "", width |-> 0,
                         precision |-> 0,
                         destroyed |-> heap[h].destroyed + 1]]

\* Mutant of drop: FieldDefn without its Drop impl.
drop_nothing(h) == fldHeap

\* impl Drop for FieldDefn
drop(h) == OGR_Fld_Destroy(fldHeap, h)

\* Mutant of add_to_layer_assert: the return value is not asserted on.
add_to_layer_no_assert(rv) == TRUE

\* FieldDefn::add_to_layer, the assert_eq! on the native return value
add_to_layer_assert(rv) == rv = OGRERR_NONE

\* No create_defn_fields or add_to_layer call under way.  A call in progress
\* records: the slice passed (specs), the loop position (i), the FieldDefn
\* in hand (h), the layer definition when the call began (start), the
\* FieldDefn values constructed (made), the native return values (rvs).
Idle == [pc |-> "idle", mode |-> "none", specs |-> <<>>, i |-> 0, h |-> 0,
         start |-> <<>>, made |-> 0, rvs |-> <<>>, outcome |-> "none"]

(* ------------------------------- state -------------------------------- *)

FieldSpecs == {<<"name", "OFTString">>, <<"pop", "OFTInteger">>}
Widths == {10}
Precisions == {2}

\* Definitions a layer may already have when its dataset hands it out.
InitSchemas == {<<>>, <<[name |-> "name", type |-> "OFTString"],
                        [name |-> "pop", type |-> "OFTInteger"]>>}
NoFilterCall == [called |-> FALSE, geometry |-> NULL, everSet |-> FALSE]
NoCall == [op |-> "none", geometry |-> NULL, field_names |-> <<>>,
           values |-> <<>>, rvGeom |-> "", rvSubmit |-> "", result |-> Ok,
           setters |-> 0, submitted |-> FALSE, before |-> <<>>]

\* Layer::_with_c_layer on a layer just created in its dataset: no field,
\* no feature, no filter, reading at the start.
Init ==
    /\ features = <<>>
    /\ cursor = 0
    /\ filter = NULL
    /\ filterCall = NoFilterCall
    /\ schema = <<>>
    /\ featHeap = <<>>
    /\ fldHeap = <<>>
    /\ fldOwner = {}
    /\ cdf = Idle
    /\ iters = [id \in 1..MaxIters |-> NoIter]
    /\ last = NoCall
    /\ created = <<>>
    /\ hist = "creates"
    /\ lastPass = NoPass

\* Layer::_with_c_layer on an empty layer that may already have fields.
InitDefn ==
    /\ features = <<>>
    /\ cursor = 0
    /\ filter = NULL
    /\ filterCall = NoFilterCall
    /\ schema \in InitSchemas
    /\ featHeap = <<>>
    /\ fldHeap = <<>>
    /\ fldOwner = {}
    /\ cdf = Idle
    /\ iters = [id \in 1..MaxIters |-> NoIter]
    /\ last = NoCall
    /\ created = <<>>
    /\ hist = "creates"
    /\ lastPass = NoPass

LiveIters == {id \in 1..MaxIters : iters[id].live}

\* What a create_* call leaves behind, given the record r its model returns.
Called(op, geometry, field_names, values, rvGeom, rvSubmit, r) ==
    /\ features' = r.features
    /\ featHeap' = r.featHeap
    /\ last' = [op |-> op, geometry |-> geometry, field_names |-> field_names,
                values |-> values, rvGeom |-> rvGeom,
                rvSubmit |-> IF r.submitted THEN rvSubmit ELSE "",
                result |-> r.result, setters |-> r.setters,
                submitted |-> r.submitted, before |-> features]
    /\ lastPass' = NoPass
    /\ UNCHANGED <<cursor, filter, filterCall, schema, fldHeap, fldOwner, cdf,
                   iters>>

\* create_feature takes &mut self: no iterator borrows the layer.
CanCreate ==
    /\ cdf.pc = "idle"
    /\ LiveIters = {}
    /\ Len(featHeap) < MaxCalls
    /\ Len(features) < MaxFeatures

Layer_create_feature ==
    /\ CanCreate
    /\ \E geometry \in FeatureGeoms, rvGeom \in OGRErr, rvSubmit \in OGRErr :
         LET r == create_feature(geometry, rvGeom, rvSubmit)
         IN /\ Called("create_feature", geometry, <<>>, <<>>, rvGeom, rvSubmit, r)
            /\ created' = IF r.result = Ok THEN Append(created, geometry)
                          ELSE created
    /\ hist' = IF hist = "creates" THEN "creates" ELSE "other"

Layer_features ==
    /\ cdf.pc = "idle"
    /\ LiveIters # 1..MaxIters
    /\ LET id == Min((1..MaxIters) \ LiveIters)
       IN iters' = [iters EXCEPT ![id] =
                      [live |-> TRUE, out |-> <<>>, done |-> FALSE,
                       clean |-> TRUE, alone |-> TRUE, prev |-> lastPass,
                       first |-> (hist = "creates")]]
    /\ cursor' = with_layer_cursor
    /\ hist' = IF hist = "creates" THEN "pass" ELSE "other"
    /\ UNCHANGED <<features, filter, filterCall, schema, featHeap, fldHeap,
                   fldOwner, cdf, last, created, lastPass>>

\* The iterators after iterator id has called next(): the others are no
\* longer the only reader of the layer.
Others(id) ==
    [j \in 1..MaxIters |->
        IF j # id /\ iters[j].live /\ ~iters[j].done
        THEN [iters[j] EXCEPT !.alone = FALSE] ELSE iters[j]]

FeatureIterator_next ==
    /\ cdf.pc = "idle"
    /\ \E id \in LiveIters :
         /\ ~iters[id].done
         /\ LET r == next
            IN /\ cursor' = r.cursor
               /\ IF r.item = <<>>
                  THEN /\ iters' = [Others(id) EXCEPT ![id].done = TRUE]
                       /\ lastPass' = [valid |-> iters[id].clean
                                                 /\ iters[id].alone,
                                       out |-> iters[id].out]
                  ELSE /\ iters' = [Others(id) EXCEPT
                                      ![id].out = IF iters[id].clean
                                                  THEN iters[id].out \o r.item
                                                  ELSE <<>>]
                       /\ UNCHANGED lastPass
         /\ hist' = IF hist = "pass" /\ iters[id].first THEN "pass" ELSE "other"
    /\ UNCHANGED <<features, filter, filterCall, schema, featHeap, fldHeap,
                   fldOwner, cdf, last, created>>

\* Dropping a FeatureIterator releases the borrow; it has no Drop impl.
FeatureIterator_drop ==
    /\ cdf.pc = "idle"
    /\ \E id \in LiveIters : iters' = [iters EXCEPT ![id] = NoIter]
    /\ hist' = "other"
    /\ UNCHANGED <<features, cursor, filter, filterCall, schema, featHeap,
                   fldHeap, fldOwner, cdf, last, created, lastPass>>

\* A filter call changes what every pass under way and every later pass
\* sees; what a pass yields is recorded only while it runs under one filter.
Unclean(it) == [it EXCEPT !.clean = FALSE, !.out = <<>>, !.prev = NoPass,
                          !.first = FALSE]
Filtered(geometry, r) ==
    /\ filter' = r.filter
    /\ filterCall' = [called |-> TRUE, geometry |-> geometry,
                      everSet |-> filterCall.everSet \/ geometry # NULL]
    /\ cursor' = r.cursor
    /\ iters' = [id \in 1..MaxIters |->
                   IF iters[id].live THEN Unclean(iters[id]) ELSE iters[id]]
    /\ lastPass' = NoPass
    /\ hist' = "other"
    /\ UNCHANGED <<features, schema, featHeap, fldHeap, fldOwner, cdf, last,
                   created>>

Layer_set_spatial_filter ==
    /\ cdf.pc = "idle"
    /\ \E geometry \in FilterGeoms : Filtered(geometry, set_spatial_filter(geometry))

Layer_clear_spatial_filter ==
    /\ cdf.pc = "idle"
    /\ Filtered(NULL, clear_spatial_filter)

NextIter ==
    \/ Layer_create_feature
    \/ Layer_features
    \/ FeatureIterator_next
    \/ FeatureIterator_drop
    \/ Layer_set_spatial_filter
    \/ Layer_clear_spatial_filter

SpecIter == Init /\ [][NextIter]_vars

(* ------------------- create_feature_fields (action) ------------------- *)

SeqsUpTo(S, n) == UNION {[1..k -> S] : k \in 0..n}

Layer_create_feature_fields ==
    /\ CanCreate
    /\ Len(featHeap) < MaxFieldCalls
    /\ \E geometry \in FeatureGeoms, rvGeom \in OGRErr, rvSubmit \in OGRErr,
          field_names \in SeqsUpTo(FieldNames, MaxArgs),
          values \in SeqsUpTo(FieldValues, MaxArgs) :
         Called("create_feature_fields", geometry, field_names, values,
                rvGeom, rvSubmit,
                create_feature_fields(geometry, field_names, values,
                                      rvGeom, rvSubmit))
    /\ hist' = "other"
    /\ UNCHANGED created

(* ----------------- FieldDefn and create_defn_fields ------------------- *)

FieldDefn_new ==
    /\ cdf.pc = "idle"
    /\ Len(fldHeap) < MaxFld
    /\ \E fd \in FieldSpecs :
         fldHeap' = Append(fldHeap, OGR_Fld_Create(fd[1], fd[2]))
    /\ fldOwner' = fldOwner \cup {Len(fldHeap) + 1}
    /\ UNCHANGED <<features, cursor, filter, filterCall, schema, featHeap,
                   cdf, iters, last, created, hist, lastPass>>

FieldDefn_set_width ==
    /\ cdf.pc = "idle"
    /\ \E h \in fldOwner, width \in Widths :
         fldHeap' = [fldHeap EXCEPT ![h].width = width]
    /\ UNCHANGED <<features, cursor, filter, filterCall, schema, featHeap,
                   fldOwner, cdf, iters, last, created, hist, lastPass>>

FieldDefn_set_precision ==
    /\ cdf.pc = "idle"
    /\ \E h \in fldOwner, precision \in Precisions :
         fldHeap' = [fldHeap EXCEPT ![h].precision = precision]
    /\ UNCHANGED <<features, cursor, filter, filterCall, schema, featHeap,
                   fldOwner, cdf, iters, last, created, hist, lastPass>>

\* The FieldDefn goes out of scope in the caller.
FieldDefn_drop ==
    /\ cdf.pc = "idle"
    /\ \E h \in fldOwner :
         /\ fldHeap' = drop(h)
         /\ fldOwner' = fldOwner \ {h}
    /\ UNCHANGED <<features, cursor, filter, filterCall, schema, featHeap,
                   cdf, iters, last, created, hist, lastPass>>

\* FieldDefn::add_to_layer called on a FieldDefn the caller holds: the
\* native registration call begins.
FieldDefn_add_to_layer ==
    /\ cdf.pc = "idle"
    /\ Len(schema) < MaxSchema
    /\ \E h \in fldOwner :
         cdf' = [Idle EXCEPT !.pc = "native", !.mode = "single", !.h = h,
                             !.start = schema]
    /\ UNCHANGED <<features, cursor, filter, filterCall, schema, featHeap,
                   fldHeap, fldOwner, iters, last, created, hist, lastPass>>

\* Layer::create_defn_fields is entered with the slice fields_def.
Layer_create_defn_fields ==
    /\ cdf.pc = "idle"
    /\ \E fields_def \in SeqsUpTo(FieldSpecs, MaxSpecs) :
         /\ Len(fldHeap) + Len(fields_def) <= MaxFld
         /\ Len(schema) + Len(fields_def) <= MaxSchema
         /\ cdf' = [Idle EXCEPT !.pc = "loop", !.mode = "batch",
                                !.specs = fields_def, !.i = 1,
                                !.start = schema]
    /\ UNCHANGED <<features, cursor, filter, filterCall, schema, featHeap,
                   fldHeap, fldOwner, iters, last, created, hist, lastPass>>

\* Loop head: past the end the call returns; otherwise FieldDefn::new
\* constructs the FieldDefn of the pair at position i.
create_defn_fields_new ==
    /\ cdf.pc = "loop"
    /\ IF cdf.i > Len(cdf.specs)
       THEN /\ cdf' = [cdf EXCEPT !.pc = "idle", !.outcome = "returned"]
            /\ UNCHANGED <<fldHeap, fldOwner>>
       ELSE /\ fldHeap' = Append(fldHeap, OGR_Fld_Create(cdf.specs[cdf.i][1],
                                                        cdf.specs[cdf.i][2]))
            /\ fldOwner' = fldOwner \cup {Len(fldHeap) + 1}
            /\ cdf' = [cdf EXCEPT !.pc = "add", !.h = Len(fldHeap) + 1,
                                  !.made = cdf.made + 1]
    /\ UNCHANGED <<features, cursor, filter, filterCall, schema, featHeap,
                   iters, last, created, hist, lastPass>>

\* fdefn.add_to_layer(self): the native registration call begins.
create_defn_fields_add ==
    /\ cdf.pc = "add"
    /\ cdf' = [cdf EXCEPT !.pc = "native"]
    /\ UNCHANGED <<features, cursor, filter, filterCall, schema, featHeap,
                   fldHeap, fldOwner, iters, last, created, hist, lastPass>>

\* OGR_L_CreateField returns rv and add_to_layer asserts on it: a failed
\* assertion panics and the stack unwinds.
add_to_layer_return ==
    /\ cdf.pc = "native"
    /\ \E rv \in OGRErr :
         /\ schema' = OGR_L_CreateField(schema, fldHeap[cdf.h], rv)
         /\ features' = WidenFeatures(features, rv)
         /\ cdf' = [cdf EXCEPT
                      !.rvs = Append(cdf.rvs, rv),
                      !.pc = IF ~add_to_layer_assert(rv) THEN "unwind"
                             ELSE IF cdf.mode = "batch" THEN "drop"
                             ELSE "idle",
                      !.outcome = IF add_to_layer_assert(rv) /\ cdf.mode = "single"
                                  THEN "returned" ELSE "none"]
    /\ iters' = [id \in 1..MaxIters |->
                   IF iters[id].live THEN Unclean(iters[id]) ELSE iters[id]]
    /\ lastPass' = NoPass
    /\ hist' = "other"
    /\ last' = NoCall
    /\ UNCHANGED <<cursor, filter, filterCall, featHeap, fldHeap, fldOwner,
                   created>>

\* End of the loop body: fdefn goes out of scope.
create_defn_fields_drop ==
    /\ cdf.pc = "drop"
    /\ fldHeap' = drop(cdf.h)
    /\ fldOwner' = fldOwner \ {cdf.h}
    /\ cdf' = [cdf EXCEPT !.pc = "loop", !.i = cdf.i + 1, !.h = 0]
    /\ UNCHANGED <<features, cursor, filter, filterCall, schema, featHeap,
                   iters, last, created, hist, lastPass>>

\* Unwinding after the failed assertion drops the FieldDefn in hand.
add_to_layer_unwind ==
    /\ cdf.pc = "unwind"
    /\ fldHeap' = drop(cdf.h)
    /\ fldOwner' = fldOwner \ {cdf.h}
    /\ cdf' = [cdf EXCEPT !.pc = "idle", !.outcome = "panicked"]
    /\ UNCHANGED <<features, cursor, filter, filterCall, schema, featHeap,
                   iters, last, created, hist, lastPass>>

NextCreate ==
    \/ Layer_create_feature
    \/ Layer_create_feature_fields

SpecCreate == InitDefn /\ [][NextCreate]_vars

NextCreateIter ==
    \/ Layer_create_feature_fields
    \/ Layer_features
    \/ FeatureIterator_next
    \/ FeatureIterator_drop
    \/ Layer_set_spatial_filter
    \/ Layer_clear_spatial_filter

SpecCreateIter == InitDefn /\ [][NextCreateIter]_vars

NextFld ==
    \/ FieldDefn_new
    \/ FieldDefn_set_width
    \/ FieldDefn_set_precision
    \/ FieldDefn_add_to_layer
    \/ FieldDefn_drop
    \/ Layer_create_defn_fields
    \/ create_defn_fields_new
    \/ create_defn_fields_add
    \/ add_to_layer_return
    \/ create_defn_fields_drop
    \/ add_to_layer_unwind

SpecFld == Init /\ [][NextFld]_vars

Next == NextIter \/ NextCreate \/ NextFld

Spec == Init /\ [][Next]_vars

(* ------------------------------- claims ------------------------------- *)

Geoms(out) == [i \in 1..Len(out) |-> out[i].geom]
First(seq) == IF seq = <<>> THEN <<>> ELSE <<seq[1]>>
Fields(specs) == [i \in 1..Len(specs) |-> [name |-> specs[i][1],
                                          type |-> specs[i][2]]]

C2_SecondPassSame ==
    \A id \in LiveIters :
        (iters[id].done /\ iters[id].clean /\ iters[id].alone
         /\ iters[id].prev.valid)
            => iters[id].out = iters[id].prev.out

\* C3: the first next() on the iterator a features() call returns yields
\* the layer's first feature (the first one the filter in force admits),
\* whatever earlier iterators of the layer have read.
C3_FreshCursor ==
    \A id \in LiveIters :
        (iters[id].clean /\ iters[id].alone
         /\ (iters[id].done \/ iters[id].out # <<>>))
            => First(iters[id].out) = First(Admitted(features, filter))

\* C4: once set_spatial_filter has been called, the filter in force is the
\* one of the most recent set_spatial_filter or clear_spatial_filter call,
\* and a features() pass made after that call yields exactly the features
\* of the layer the filter admits (all of them after clear_spatial_filter).
C4_FilterInForce ==
    filterCall.everSet
        => /\ filter = filterCall.geometry
           /\ \A id \in LiveIters :
                (iters[id].done /\ iters[id].clean /\ iters[id].alone)
                    => iters[id].out = Admitted(features, filterCall.geometry)

C6_LengthMismatchIsErr ==
    (last.op = "create_feature_fields"
     /\ Len(last.field_names) # Len(last.values))
        => (last.result.kind = "Err" /\ ~last.submitted)

\* C7: after a successful create_feature_fields with equal-length slices
\* whose names are all in the layer definition (each value of the variant
\* of its field's type), the layer holds one more feature, with the given
\* geometry and, for every i, values[i] in the field field_names[i]; and a
\* later features() pass run to exhaustion yields that feature.
C7_Applies ==
    /\ last.op = "create_feature_fields"
    /\ last.result = Ok
    /\ Len(last.field_names) = Len(last.values)
    /\ \A i \in 1..Len(last.field_names) :
         LET idx == OGR_F_GetFieldIndex(schema, last.field_names[i])
         IN idx # 0 /\ TagOf(schema[idx].type) = last.values[i].tag
C7_Persisted ==
    /\ Len(features) = Len(last.before) + 1
    /\ LET f == features[Len(last.before) + 1]
       IN /\ f.geom = last.geometry
          /\ \A i \in 1..Len(last.field_names) :
               GetField(f, schema, last.field_names[i]) = <<last.values[i]>>
C7_FieldsPersistedAndIterated ==
    C7_Applies
        => /\ C7_Persisted
           /\ \A id \in LiveIters :
                (iters[id].done /\ iters[id].clean /\ iters[id].alone
                 /\ filter = NULL)
                    => \E k \in 1..Len(iters[id].out) :
                         iters[id].out[k] = features[Len(last.before) + 1]

\* C8: every native field definition FieldDefn::new allocates is destroyed
\* exactly once, when its FieldDefn is dropped (at the end of the loop body
\* of create_defn_fields, by its holder, or while unwinding from the failed
\* assertion of add_to_layer), and never while a registration call that
\* uses it is in progress.
C8_DestroyedOnceOnDrop ==
    /\ \A h \in 1..Len(fldHeap) :
         /\ fldHeap[h].destroyed <= 1
         /\ (h \in fldOwner) <=> (fldHeap[h].destroyed = 0)
    /\ (cdf.pc = "native") => (fldHeap[cdf.h].destroyed = 0)

C8_Witness ==
    /\ cdf.mode = "batch"
    /\ cdf.outcome = "panicked"
    /\ cdf.made = 2
    /\ Len(fldHeap) = MaxFld
    /\ \A h \in 1..Len(fldHeap) : fldHeap[h].destroyed = 1

\* C9: create_defn_fields registers one field per pair, in the order given;
\* when the registration of pair i returns a non-success code the call
\* panics instead of returning, the pairs before i stay registered and no
\* pair after i is registered or constructed.
C9_RegistersInOrderOrPanics ==
    (cdf.mode = "batch" /\ cdf.pc = "idle")
        => /\ cdf.outcome \in {"returned", "panicked"}
           /\ (cdf.outcome = "panicked")
                <=> (\E k \in 1..Len(cdf.rvs) : cdf.rvs[k] # OGRERR_NONE)
           /\ (cdf.outcome = "returned")
                => /\ schema = cdf.start \o Fields(cdf.specs)
                   /\ cdf.made = Len(cdf.specs)
           /\ (cdf.outcome = "panicked")
                => /\ cdf.rvs[cdf.i] # OGRERR_NONE
                   /\ Len(cdf.rvs) = cdf.i
                   /\ schema = cdf.start
                               \o Fields(SubSeq(cdf.specs, 1, cdf.i - 1))
                   /\ cdf.made = cdf.i

C9_Witness ==
    /\ cdf.mode = "batch" /\ cdf.pc = "idle"
    /\ cdf.outcome = "panicked"
    /\ cdf.i = 2
    /\ Len(cdf.specs) = 3
    /\ Len(schema) = 1

\* C10: no native feature allocated by OGR_F_Create inside create_feature or
\* create_feature_fields stays allocated without an owner that will release
\* it, whether the call returned Ok or Err.
C10_NoFeatureLeaked ==
    \A h \in 1..Len(featHeap) :
        featHeap[h].state = "allocated" => featHeap[h].owned

====
